---- MODULE Spec2Model ----
(***************************************************************************)
(* A model of Args::CmdLine (src/Args/cmd_line.hpp): the registry of       *)
(* arguments, the token cursor, the dispatch loop of parse(), and the two  *)
(* validation passes.  A token is a sequence of one-character strings, so  *)
(* that the split at '=', the "--" / "-" classification and the flag combo *)
(* loop are computed character by character as the code does.              *)
(*                                                                         *)
(* The node classes (Arg, Command), the Context and the helpers            *)
(* isArgument / isFlag live in headers that cmd_line.hpp only includes;    *)
(* they are modelled from the specification's contract of them.            *)
(***************************************************************************)
EXTENDS Integers, Sequences, FiniteSets, TLC

\* ------------------------------------------------------------------ bounds
\* Longest token list given to the constructor.
MaxTokens == 2
\* Largest number of successful addArg calls before parse().
MaxArgs == 2

\* ------------------------------------------------------------------ tokens
tAF    == <<"-", "a", "f">>
tAFA   == <<"-", "a", "f", "a">>
tXeqV  == <<"-", "-", "x", "=", "v">>
tXeq   == <<"-", "-", "x", "=">>
tV     == <<"v">>
tB     == <<"b">>
tT     == <<"t">>
tC     == <<"-", "-", "c">>
tA     == <<"-", "a">>
tF     == <<"-", "f">>
tX     == <<"-", "-", "x">>
NoName == <<>>

\* The tokens a command line is drawn from.
Vocabulary == {tAF, tAFA, tXeqV, tXeq, tV, tB, tT, tC}

RECURSIVE SeqsUpTo(_, _)
SeqsUpTo(S, n) ==
    IF n = 0 THEN {<<>>}
    ELSE LET shorter == SeqsUpTo(S, n - 1)
         IN  shorter \cup {Append(s, x) : s \in {q \in shorter : Len(q) = n - 1}, x \in S}

TokenLists == SeqsUpTo(Vocabulary, MaxTokens)

\* ------------------------------------------------------------------- nodes
\* The null pointer.
Null == "nullptr"

\* The argument objects the caller may create.  Children of a command are
\* nodes too; they are never registered at the top level.
nA == "A"   \* flag -a, no value
nF == "F"   \* flag -f / name --x, with value, required
nB == "B"   \* command b, with the required child --c
nC == "C"   \* child of b: name --c, required
nT == "T"   \* command t, with one value
nD == "D"   \* a second argument with flag -a (with value)
nE == "E"   \* a bare-named argument "b" (an argument used as a command)

\* What the caller may hand to addArg: a top-level node, or nullptr.
TopLevelPool == {nA, nF, nB, nT, nD, nE}
AllNodes     == TopLevelPool \cup {nC}

\* ArgIface::type()
type(n) == IF n \in {nB, nT} THEN "Command" ELSE "Arg"
\* arg->type() == ArgType::Command, and its negation.
isCommand(n) == n \in {nB, nT}
isNoCommand(n) == n \notin {nB, nT}
\* ArgIface::isWithValue()
isWithValue(n) == n \in {nF, nT, nD}
\* ArgIface::isRequired()
isRequired(n) == n \in {nF, nC}
\* The flag of a node ("-" and one character), NoName if it has none.
flagOf(n) ==
    IF n \in {nA, nD} THEN tA ELSE IF n = nF THEN tF ELSE NoName
\* The name of a node, NoName if it has none.
nameOf(n) ==
    CASE n = nF -> tX
      [] n \in {nB, nE} -> tB
      [] n = nC -> tC
      [] n = nT -> tT
      [] OTHER -> NoName
\* The children of a command, in the order they were added to it.
children(n) == IF n = nB THEN <<nC>> ELSE <<>>
\* ArgIface::name(): the display name used in messages.
name(n) == IF n \in {nA, nD} THEN flagOf(n) ELSE nameOf(n)

\* ---------------------------------------------------------------- helpers
\* details::isArgument: the word starts with "--".
isArgument(word) == Len(word) >= 2 /\ word[1] = "-" /\ word[2] = "-"
\* details::isFlag: the word starts with a single "-".
isFlag(word) == ~isArgument(word) /\ Len(word) >= 1 /\ word[1] = "-"

\* The least element of a set of indices, 0 for the empty set.
First(S) == IF S = {} THEN 0 ELSE CHOOSE i \in S : \A j \in S : i <= j

\* String::find( '=' ): the first index of '=', 0 for npos.
FindEq(word) == First({i \in 1..Len(word) : word[i] = "="})

\* The element at an index, the null pointer for index 0.
At(s, i) == IF i = 0 THEN Null ELSE s[i]

\* ------------------------------------------------- node lookup (contract)
\* Whether the string is one of the node's own identifying strings.
Identifies(n, str) ==
    str # NoName /\ (flagOf(n) = str \/ nameOf(n) = str)

\* The first of the nodes that the string identifies, or null.
FirstIdentified(ns, str) ==
    At(ns, First({k \in 1..Len(ns) : Identifies(ns[k], str)}))

\* Command::findChild: searches only the command's own children.
findChild(c, str) == FirstIdentified(children(c), str)

\* ArgIface::findArgument: self if the string is one of the node's own
\* identifying strings, else (for a Command) the matching child, else null.
nodeFindArgument(n, str) ==
    IF Identifies(n, str) THEN n
    ELSE IF isCommand(n) THEN findChild(n, str)
    ELSE Null

\* ------------------------------------------------------------------- state
VARIABLES
    m_context,   \* the tokens not yet read, in order (Context)
    m_args,      \* the registry: node ids in registration order
    m_command,   \* the current command, or Null
    m_opt,       \* "Empty" or "CommandIsRequired"
    calls,       \* the process calls made so far: [node, value] in order
    pc,          \* "setup" (before parse), "loop" (inside parse), "done",
                 \* or "crashed" (ended by undefined behaviour)
    err,         \* the exception the last call ended in, or NoError
    last,        \* what the last loop iteration of parse() did
    argv,        \* the token list the constructor was given
    checked      \* the top-level nodes pre-parse validation was called on

vars == <<m_context, m_args, m_command, m_opt, calls, pc, err, last, argv,
          checked>>

NoError == [kind |-> "none", names |-> <<>>]
Error(k, ns) == [kind |-> k, names |-> ns]
NoValue == <<"<none>">>
NoStep  == [form |-> "none", word |-> NoName, before |-> <<>>, ncalls |-> 0,
            cmd |-> Null]

\* CmdLine::CmdLine: the token list and the option are given, the registry
\* is empty and there is no current command.
Constructed(tokens, opt) ==
    /\ m_context = tokens
    /\ argv = tokens
    /\ m_opt = opt
    /\ m_args = <<>>
    /\ m_command = Null
    /\ calls = <<>>
    /\ pc = "setup"
    /\ err = NoError
    /\ last = NoStep
    /\ checked = <<>>

InRegistry(args, n) == \E i \in 1..Len(args) : args[i] = n

\* CmdLine::addArg( ArgIface * ): nullptr and an already registered node
\* are refused with an exception; otherwise the node is appended.
addArgResult(args, arg) ==
    IF arg # Null
    THEN IF ~InRegistry(args, arg)
         THEN [args |-> Append(args, arg), err |-> NoError]
         ELSE [args |-> args, err |-> Error("AlreadyRegistered", <<name(arg)>>)]
    ELSE [args |-> args, err |-> Error("NullArgument", <<>>)]

\* The record of a call of addArg: which overload, and on what.
Added(form, arg) == [NoStep EXCEPT !.form = form, !.cmd = arg]

AddArg(arg) ==
    /\ pc = "setup"
    /\ Len(m_args) < MaxArgs
    /\ \E r \in {addArgResult(m_args, arg)} :
          /\ m_args' = r.args
          /\ err' = r.err
    /\ last' = Added("addArg", arg)
    /\ UNCHANGED <<m_context, m_command, m_opt, calls, pc, argv, checked>>

\* CmdLine::addArg( ArgPtr ), lines 128-140, on a pointer that holds a
\* node: a node already registered is refused with an exception, otherwise
\* the node is appended.
addArgPtrResult(args, arg) ==
    IF ~InRegistry(args, arg)
    THEN [args |-> Append(args, arg), err |-> NoError]
    ELSE [args |-> args, err |-> Error("AlreadyRegistered", <<name(arg)>>)]

\* CmdLine::addArg( ArgPtr ) on an empty pointer: there is no test for it,
\* and arg->setCmdLine (line 133) or arg->name() (line 139) is called
\* through the null pointer.  The behaviour is undefined: the call may go
\* through as if the pointer held a node, or the program may end there.
addArgPtrOnNull(args) ==
    IF ~InRegistry(args, Null)
    THEN [args |-> Append(args, Null), err |-> NoError]
    ELSE [args |-> args, err |-> Error("AlreadyRegistered", <<NoName>>)]

AddArgPtr(arg) ==
    /\ pc = "setup"
    /\ Len(m_args) < MaxArgs
    /\ IF arg # Null
       THEN \E r \in {addArgPtrResult(m_args, arg)} :
               /\ m_args' = r.args
               /\ err' = r.err
               /\ pc' = pc
       ELSE \/ \E r \in {addArgPtrOnNull(m_args)} :
                  /\ m_args' = r.args
                  /\ err' = r.err
                  /\ pc' = pc
            \/ /\ pc' = "crashed"
               /\ UNCHANGED <<m_args, err>>
    /\ last' = Added("addArgPtr", arg)
    /\ UNCHANGED <<m_context, m_command, m_opt, calls, argv, checked>>

\* ------------------------------------------------ node behaviour (contract)
\* The state a step of parse() works on.
ParseState(ctx, command, cs) ==
    [ctx |-> ctx, command |-> command, calls |-> cs, err |-> NoError]

Failed(st, e) == [st EXCEPT !.err = e]

\* Whether a token looks like an argument name rather than a value.
LooksLikeName(tok) == isArgument(tok) \/ isFlag(tok)

\* ArgIface::process: records the invocation; a node with a value takes the
\* next token as its value, and fails when there is none or when the next
\* token looks like another argument name.
process(n, st) ==
    IF isWithValue(n)
    THEN IF st.ctx = <<>> \/ LooksLikeName(Head(st.ctx))
         THEN Failed(st, Error("MissingValue", <<name(n)>>))
         ELSE [st EXCEPT !.calls = Append(@, [node |-> n, value |-> Head(st.ctx)]),
                         !.ctx = Tail(@)]
    ELSE [st EXCEPT !.calls = Append(@, [node |-> n, value |-> NoValue])]

\* Whether process has been called on the node (its "defined" mark).
isDefined(cs, n) == \E i \in 1..Len(cs) : cs[i].node = n

\* How many times process has been called on the node.
TimesProcessed(cs, n) == Cardinality({i \in 1..Len(cs) : cs[i].node = n})

\* The accumulators of pre-parse validation.
NoAcc == [flags |-> {}, names |-> {}, err |-> NoError]

\* Enters a flag into the shared set of flags; fails if it is there.
enterFlag(acc, f) ==
    IF acc.err # NoError \/ f = NoName THEN acc
    ELSE IF f \in acc.flags
         THEN [acc EXCEPT !.err = Error("Redefinition", <<f>>)]
         ELSE [acc EXCEPT !.flags = @ \cup {f}]

\* Enters a name into the shared set of names; fails if it is there.
enterName(acc, nm) ==
    IF acc.err # NoError \/ nm = NoName THEN acc
    ELSE IF nm \in acc.names
         THEN [acc EXCEPT !.err = Error("Redefinition", <<nm>>)]
         ELSE [acc EXCEPT !.names = @ \cup {nm}]

RECURSIVE checkAllBefore(_, _)
\* ArgIface::checkCorrectnessBeforeParsing( flags, names ): enters the
\* node's identifying strings into the shared sets and fails on a string
\* that is already there; a command then checks its children.
nodeCheckBefore(n, acc) ==
    checkAllBefore(children(n), enterName(enterFlag(acc, flagOf(n)), nameOf(n)))

\* The nodes of a list checked in order, until one fails.
checkAllBefore(ns, acc) ==
    IF ns = <<>> \/ acc.err # NoError THEN acc
    ELSE checkAllBefore(Tail(ns), nodeCheckBefore(Head(ns), acc))

\* The first error of a list of check results, NoError when there is none.
FirstError(es) ==
    IF \A k \in 1..Len(es) : es[k] = NoError THEN NoError
    ELSE es[First({k \in 1..Len(es) : es[k] # NoError})]

\* ArgIface::checkCorrectnessAfterParsing of a node without children:
\* fails if the node is required and was never invoked.
leafCheckAfter(n, cs) ==
    IF isRequired(n) /\ ~isDefined(cs, n)
    THEN Error("RequiredMissing", <<name(n)>>)
    ELSE NoError

\* ArgIface::checkCorrectnessAfterParsing: fails if the node is required
\* and was never invoked; an invoked command asks its children in order.
nodeCheckAfter(n, cs) ==
    IF isRequired(n) /\ ~isDefined(cs, n)
    THEN Error("RequiredMissing", <<name(n)>>)
    ELSE IF isCommand(n) /\ isDefined(cs, n)
         THEN FirstError([k \in 1..Len(children(n)) |-> leafCheckAfter(children(n)[k], cs)])
         ELSE NoError

\* A sequence without its i-th element.
Without(a, i) == SubSeq(a, 1, i - 1) \o SubSeq(a, i + 1, Len(a))

\* The similarity test of the misspelling search: the candidate is within
\* one edit (a changed, missing or extra character, or two neighbouring
\* characters swapped) of the name.
Similar(cand, nm) ==
    \/ cand = nm
    \/ /\ Len(cand) = Len(nm)
       /\ \/ Cardinality({i \in 1..Len(nm) : cand[i] # nm[i]}) = 1
          \/ \E i \in 1..(Len(nm) - 1) :
                /\ cand[i] = nm[i + 1] /\ cand[i + 1] = nm[i]
                /\ \A j \in 1..Len(nm) : j \notin {i, i + 1} => cand[j] = nm[j]
    \/ Len(cand) = Len(nm) + 1 /\ \E i \in 1..Len(cand) : Without(cand, i) = nm
    \/ Len(nm) = Len(cand) + 1 /\ \E i \in 1..Len(nm) : Without(nm, i) = cand

\* The name, if the candidate may be a misspelling of it.
Suggest(cand, nm) ==
    IF nm # NoName /\ Similar(cand, nm) THEN <<nm>> ELSE <<>>

\* The node's own identifying strings the candidate may be a misspelling of.
OwnSuggestions(n, cand) == Suggest(cand, flagOf(n)) \o Suggest(cand, nameOf(n))

RECURSIVE ChildSuggestions(_, _)
ChildSuggestions(kids, cand) ==
    IF kids = <<>> THEN <<>>
    ELSE OwnSuggestions(Head(kids), cand) \o ChildSuggestions(Tail(kids), cand)

\* Command::isMisspelledCommand: the command's own name only.
isMisspelledCommand(c, cand) == Suggest(cand, nameOf(c))

\* ArgIface::isMisspelledName: the names of the node the candidate may be
\* a misspelling of; a command also asks its children.
nodeIsMisspelledName(n, cand) ==
    OwnSuggestions(n, cand) \o ChildSuggestions(children(n), cand)

\* ------------------------------------------------------- CmdLine (source)
\* CmdLine::findArgument, lines 444-455, once std::find_if has ended at
\* place it (0 for m_args.end()).
findArgumentAt(args, command, str, it) ==
    IF it # 0
    THEN IF isCommand(args[it])
         THEN args[it]
         ELSE nodeFindArgument(args[it], str)
    ELSE IF command # Null
         THEN findChild(command, str)
         ELSE Null

\* CmdLine::findArgument
findArgument(args, command, str) ==
    findArgumentAt(args, command, str,
        First({i \in 1..Len(args) : nodeFindArgument(args[i], str) # Null}))

\* CmdLine::isMisspelledName, the body of the for_each: the current
\* command is asked for its own name and its children's, any other command
\* for its own name only, any other node for its names.
misspelledIn(arg, command, str) ==
    IF isCommand(arg) /\ arg # command
    THEN isMisspelledCommand(arg, str)
    ELSE nodeIsMisspelledName(arg, str)

RECURSIVE isMisspelledNameFrom(_, _, _, _)
\* CmdLine::isMisspelledName, the for_each from place i on.
isMisspelledNameFrom(args, command, str, i) ==
    IF i > Len(args) THEN <<>>
    ELSE misspelledIn(args[i], command, str)
            \o isMisspelledNameFrom(args, command, str, i + 1)

\* CmdLine::isMisspelledName: the possible names, in the order found; the
\* result of the call is whether there is any.
isMisspelledName(args, command, str) == isMisspelledNameFrom(args, command, str, 1)

\* A report of an unknown word that throws only when the search finds a
\* possible name.
printInfoOnlyWhenMisspelled(args, command, word) ==
    IF isMisspelledName(args, command, word) # <<>>
    THEN Error("Unknown", <<word>> \o isMisspelledName(args, command, word))
    ELSE NoError

\* CmdLine::printInfoAboutUnknownArgument: always throws; the message
\* carries the word and, if any, the possible names.
printInfoAboutUnknownArgument(args, command, word) ==
    Error("Unknown", <<word>> \o isMisspelledName(args, command, word))

\* A pre-parse validation that takes the nodes as they were registered.
registrationOrder(args) == args

\* CmdLine::checkCorrectnessBeforeParsing, lines 407-420: the order in
\* which the registered nodes are checked: the first for_each checks the
\* non-command nodes and sets the commands aside, the second checks the
\* commands.
beforeParsingOrder(args) ==
    SelectSeq(args, isNoCommand) \o SelectSeq(args, isCommand)

\* A pre-parse validation that forgets the commands.
checkBeforeSkippingCommands(args) ==
    checkAllBefore(SelectSeq(args, isNoCommand), NoAcc).err

\* CmdLine::checkCorrectnessBeforeParsing: the non-command nodes in
\* registration order, then the commands in registration order, all
\* against the same flags and names.
checkCorrectnessBeforeParsing(args) ==
    checkAllBefore(beforeParsingOrder(args), NoAcc).err

\* The nodes checkCorrectnessBeforeParsing calls, in order: all of them,
\* or those up to the one whose check throws.
checkedBeforeParsing(args) ==
    SubSeq(beforeParsingOrder(args), 1,
           First({Len(args)} \cup
                 {k \in 1..Len(args) :
                     checkAllBefore(SubSeq(beforeParsingOrder(args), 1, k), NoAcc).err
                         # NoError}))

\* The check of the CommandIsRequired option, line 431.
checkOption(command, opt) ==
    IF opt = "CommandIsRequired" /\ command = Null
    THEN Error("MissingCommand", <<>>)
    ELSE NoError

\* What every registered node answers, in registration order (line 425).
nodesAfter(args, cs) == [k \in 1..Len(args) |-> nodeCheckAfter(args[k], cs)]

\* A post-parse validation that asks no node.
checkAfterOptionOnly(args, command, opt, cs) ==
    checkOption(command, opt)

\* A post-parse validation that demands a command whatever the option.
checkAfterIgnoringOption(args, command, opt, cs) ==
    FirstError(nodesAfter(args, cs) \o <<checkOption(command, "CommandIsRequired")>>)

\* CmdLine::checkCorrectnessAfterParsing: every registered node in
\* registration order, then the CommandIsRequired option.
checkCorrectnessAfterParsing(args, command, opt, cs) ==
    FirstError(nodesAfter(args, cs) \o <<checkOption(command, opt)>>)

\* parse(), lines 314-324: the token split at place eqIt (0 for npos); a
\* non-empty part after the '=' is pushed back onto the context.
splitAt(word, rest, eqIt) ==
    IF eqIt # 0
    THEN [word |-> SubSeq(word, 1, eqIt - 1),
          ctx  |-> IF eqIt < Len(word)
                   THEN <<SubSeq(word, eqIt + 1, Len(word))>> \o rest
                   ELSE rest]
    ELSE [word |-> word, ctx |-> rest]

\* A split that drops the part after the '=' instead of pushing it back.
SplitWordNoPushBack(ctx) ==
    [word |-> splitAt(Head(ctx), Tail(ctx), FindEq(Head(ctx))).word,
     ctx  |-> Tail(ctx)]

\* A split that pushes the part after the '=' back even when it is empty.
SplitWordPushEmpty(ctx) ==
    [word |-> splitAt(Head(ctx), Tail(ctx), FindEq(Head(ctx))).word,
     ctx  |-> IF FindEq(Head(ctx)) # 0
              THEN <<SubSeq(Head(ctx), FindEq(Head(ctx)) + 1, Len(Head(ctx)))>>
                       \o Tail(ctx)
              ELSE Tail(ctx)]

\* A split that pushes the whole token back instead of the part after
\* the '='.
SplitWordPushWhole(ctx) ==
    [word |-> splitAt(Head(ctx), Tail(ctx), FindEq(Head(ctx))).word,
     ctx  |-> IF FindEq(Head(ctx)) # 0 THEN ctx ELSE Tail(ctx)]

\* parse(), lines 312-324: read the next token and split it at the first
\* '='.
SplitWord(ctx) ==
    splitAt(Head(ctx), Tail(ctx), FindEq(Head(ctx)))

\* parse(), lines 328-333, with the result of findArgument.
argumentFound(args, st, word, arg) ==
    IF arg # Null
    THEN process(arg, st)
    ELSE Failed(st, printInfoAboutUnknownArgument(args, st.command, word))

\* parse(), lines 326-334: the word has the form of an argument name.
dispatchArgument(args, st, word) ==
    argumentFound(args, st, word, findArgument(args, st.command, word))

\* The flag spelled by the i-th character of a combo (lines 339-340).
flagAt(word, i) == <<"-", word[i]>>

RECURSIVE flagsLoop(_, _, _, _)
\* parse(), lines 342-358: one character of a combo, with the result of
\* findArgument; a processed flag leads on to the next character.
flagFound(args, st, word, i, arg) ==
    IF arg = Null
    THEN Failed(st, Error("Unknown", <<flagAt(word, i)>>))
    ELSE IF i < Len(word) /\ isWithValue(arg)
         THEN Failed(st, Error("FlagsCombo", <<word>>))
         ELSE flagsLoop(args, process(arg, st), word, i + 1)

\* parse(), lines 337-359: the loop over the characters of a flags combo,
\* from character i on; an exception leaves it.
flagsLoop(args, st, word, i) ==
    IF i > Len(word) \/ st.err # NoError THEN st
    ELSE flagFound(args, st, word, i, findArgument(args, st.command, flagAt(word, i)))

RECURSIVE flagsLoopUnchecked(_, _, _, _)
\* One character of a combo without the test of line 353.
flagFoundUnchecked(args, st, word, i, arg) ==
    IF arg = Null
    THEN Failed(st, Error("Unknown", <<flagAt(word, i)>>))
    ELSE flagsLoopUnchecked(args, process(arg, st), word, i + 1)

\* A combo loop without the test of line 353.
flagsLoopUnchecked(args, st, word, i) ==
    IF i > Len(word) \/ st.err # NoError THEN st
    ELSE flagFoundUnchecked(args, st, word, i,
                            findArgument(args, st.command, flagAt(word, i)))

dispatchFlagsUnchecked(args, st, word) == flagsLoopUnchecked(args, st, word, 2)

\* A combo loop that starts one character too late.
dispatchFlagsSkipFirst(args, st, word) == flagsLoop(args, st, word, 3)

\* parse(), lines 335-360: the word has the form of a flag or flags combo.
dispatchFlags(args, st, word) == flagsLoop(args, st, word, 2)

\* The process call of a command that is made current only once its
\* process has returned.
processThenSet(st, tmp) ==
    IF st.err = NoError THEN [st EXCEPT !.command = tmp] ELSE st

\* A command branch that makes the command current after its process.
commandFoundSetAfter(args, st, word, tmp) ==
    IF tmp # Null
    THEN IF isCommand(tmp)
         THEN IF st.command # Null
              THEN Failed(st, Error("MultipleCommands",
                                    <<name(st.command), name(tmp)>>))
              ELSE processThenSet(process(tmp, st), tmp)
         ELSE process(tmp, st)
    ELSE Failed(st, printInfoAboutUnknownArgument(args, st.command, word))

\* parse(), lines 366-384, with the result of findArgument.
commandFound(args, st, word, tmp) ==
    IF tmp # Null
    THEN IF isCommand(tmp)
         THEN IF st.command # Null
              THEN Failed(st, Error("MultipleCommands",
                                    <<name(st.command), name(tmp)>>))
              ELSE process(tmp, [st EXCEPT !.command = tmp])
         ELSE process(tmp, st)
    ELSE Failed(st, printInfoAboutUnknownArgument(args, st.command, word))

\* parse(), lines 362-387: any other word: a command, or an argument named
\* like a command.
dispatchCommand(args, st, word) ==
    commandFound(args, st, word, findArgument(args, st.command, word))

\* The form parse() sees in a word (lines 326, 335, 362).
FormOf(word) ==
    IF isArgument(word) THEN "argument"
    ELSE IF isFlag(word) THEN "flags"
    ELSE "command"

\* The three branches of the loop body, on the word read.
dispatchWord(args, st, word) ==
    CASE FormOf(word) = "argument" -> dispatchArgument(args, st, word)
      [] FormOf(word) = "flags"    -> dispatchFlags(args, st, word)
      [] OTHER                     -> dispatchCommand(args, st, word)

\* The loop body after the split: the context has moved on.
afterSplit(args, st, sp) ==
    dispatchWord(args, [st EXCEPT !.ctx = sp.ctx], sp.word)

\* Context::atEnd: nothing is left to read.
atEnd(ctx) == ctx = <<>>

\* A loop that goes on whatever the context holds.
whileAlways(ctx) == TRUE

\* parse(), line 310: the condition of the while loop.
whileCondition(ctx) == ~atEnd(ctx)

\* parse(), lines 312-324, on whatever the context holds: Context::next
\* has no token to return when the context is at its end.
readWord(ctx) ==
    IF ctx = <<>> THEN [word |-> NoName, ctx |-> <<>>] ELSE SplitWord(ctx)

\* One iteration of the while loop of parse(), lines 310-388.  Context::next
\* fails when it is called with the context at its end.
iteration(args, st) ==
    IF st.ctx = <<>>
    THEN Failed(st, Error("Exhausted", <<>>))
    ELSE afterSplit(args, st, SplitWord(st.ctx))

\* ----------------------------------------------------------------- actions
\* parse(), line 308: pre-parse validation; an exception ends parse().
ParseBegin ==
    /\ pc = "setup"
    /\ \E e \in {checkCorrectnessBeforeParsing(m_args)} :
          /\ err' = e
          /\ pc' = IF e = NoError THEN "loop" ELSE "done"
    /\ checked' = checked \o checkedBeforeParsing(m_args)
    /\ UNCHANGED <<m_context, m_args, m_command, m_opt, calls, last, argv>>

\* One iteration of the loop, on a word of the given form.
DispatchStep(form) ==
    /\ \E sp \in {readWord(m_context)} :
          /\ FormOf(sp.word) = form
          /\ last' = [form |-> form, word |-> sp.word, before |-> m_context,
                      ncalls |-> Len(calls), cmd |-> m_command]
    /\ \E st \in {iteration(m_args, ParseState(m_context, m_command, calls))} :
          /\ m_context' = st.ctx
          /\ m_command' = st.command
          /\ calls' = st.calls
          /\ err' = st.err
          /\ pc' = IF st.err = NoError THEN "loop" ELSE "done"
    /\ UNCHANGED <<m_args, m_opt, argv, checked>>

DispatchArgument ==
    /\ pc = "loop"
    /\ whileCondition(m_context)
    /\ DispatchStep("argument")

DispatchFlags ==
    /\ pc = "loop"
    /\ whileCondition(m_context)
    /\ DispatchStep("flags")

DispatchCommand ==
    /\ pc = "loop"
    /\ whileCondition(m_context)
    /\ DispatchStep("command")

\* parse(), line 390: the context is at its end; post-parse validation.
ParseEnd ==
    /\ pc = "loop"
    /\ ~whileCondition(m_context)
    /\ err' = checkCorrectnessAfterParsing(m_args, m_command, m_opt, calls)
    /\ pc' = "done"
    /\ last' = [last EXCEPT !.form = "end"]
    /\ UNCHANGED <<m_context, m_args, m_command, m_opt, calls, argv, checked>>

\* The registries addArg can build: up to MaxArgs distinct nodes, in any
\* order of registration.
Registries ==
    {r \in SeqsUpTo(TopLevelPool, MaxArgs) :
        \A i, j \in 1..Len(r) : i # j => r[i] # r[j]}

\* The program just before parse() is called: constructed on a token list
\* and an option, and with its arguments registered.
Init ==
    /\ m_context \in TokenLists
    /\ argv = m_context
    /\ m_opt \in {"Empty", "CommandIsRequired"}
    /\ m_args \in Registries
    /\ m_command = Null
    /\ calls = <<>>
    /\ pc = "setup"
    /\ err = NoError
    /\ last = NoStep
    /\ checked = <<>>

Next ==
    \/ ParseBegin
    \/ DispatchArgument
    \/ DispatchFlags
    \/ DispatchCommand
    \/ ParseEnd

Spec == Init /\ [][Next]_vars

\* parse() is one blocking call: once the program is ready for it, it is
\* called and runs on, step after step, until it returns or throws.
SpecLive == Spec /\ WF_vars(Next)

\* Registration alone, from the constructor on.
InitReg ==
    \E tokens \in TokenLists, opt \in {"Empty", "CommandIsRequired"} :
        Constructed(tokens, opt)

\* What the caller may pass to addArg.
Addable == TopLevelPool \cup {Null}

RegisterByPointer == \E arg \in Addable : AddArg(arg)

RegisterByArgPtr == \E arg \in Addable : AddArgPtr(arg)

NextReg ==
    \/ RegisterByPointer
    \/ RegisterByArgPtr

SpecReg == InitReg /\ [][NextReg]_vars

\* ------------------------------------------------- whole runs of parse()
RECURSIVE runLoop(_, _)
\* The while loop of parse(), lines 310-388, run until the context is at
\* its end or an exception leaves the loop.
runLoop(args, st) ==
    IF st.err # NoError \/ ~whileCondition(st.ctx) THEN st
    ELSE runLoop(args, iteration(args, st))

\* CmdLine::parse on a whole token list: how it ends, the process calls it
\* made and the current command it leaves.
parse(args, opt, tokens) ==
    LET e0 == checkCorrectnessBeforeParsing(args)
        st == runLoop(args, ParseState(tokens, Null, <<>>))
    IN  IF e0 # NoError
        THEN [err |-> e0, calls |-> <<>>, command |-> Null]
        ELSE [err |-> IF st.err # NoError THEN st.err
                      ELSE checkCorrectnessAfterParsing(args, st.command, opt, st.calls),
              calls |-> st.calls, command |-> st.command]

\* What the run of the actions has produced once parse() has returned.
Outcome == [err |-> err, calls |-> calls, command |-> m_command]

\* The part of the last iteration's calls: those made after the iteration
\* began.
StepCalls == SubSeq(calls, last.ncalls + 1, Len(calls))

\* The last action was an iteration of the dispatch loop.
InStep == last.form \in {"argument", "flags", "command"}

\* The node the engine resolved the last iteration's word to.
Resolved == findArgument(m_args, last.cmd, last.word)

\* ------------------------------------------------------------------ C1
\* C1: when a token that resolves to a Command node is dispatched while a
\* command is already active, parse() fails with the multiple-commands
\* error naming both commands, the second command is not processed and the
\* active command is unchanged.
C1_SecondCommandRefused ==
    (/\ last.form \in {"argument", "command"}
     /\ last.cmd # Null
     /\ Resolved # Null
     /\ isCommand(Resolved))
    => /\ err = Error("MultipleCommands", <<name(last.cmd), name(Resolved)>>)
       /\ StepCalls = <<>>
       /\ m_command = last.cmd

\* ------------------------------------------------------------------ C2
\* Whether a token has the form name=value with a non-empty value.
HasValue(tok) == FindEq(tok) # 0 /\ FindEq(tok) < Len(tok)

\* The token list with token i replaced by its name and its value.
SplitAt(tokens, i) ==
    SubSeq(tokens, 1, i - 1)
        \o <<SubSeq(tokens[i], 1, FindEq(tokens[i]) - 1),
             SubSeq(tokens[i], FindEq(tokens[i]) + 1, Len(tokens[i]))>>
        \o SubSeq(tokens, i + 1, Len(tokens))

Owner(args, cmd, str) ==
    LET i == First({k \in 1..Len(args) : Identifies(args[k], str)})
    IN  IF i # 0 THEN args[i]
        ELSE IF cmd # Null THEN findChild(cmd, str)
        ELSE Null

\* The nodes a word names: one per character of a flags combo, else one.
Owners(args, cmd, word) ==
    IF FormOf(word) = "flags"
    THEN [k \in 1..(Len(word) - 1) |-> Owner(args, cmd, <<"-", word[k + 1]>>)]
    ELSE <<Owner(args, cmd, word)>>

\* Every required node has been named.
RequiredNamed(args, cmd, seen) ==
    LET Named(n) == \E k \in 1..Len(seen) : seen[k] = n
    IN  /\ \A i \in 1..Len(args) : isRequired(args[i]) => Named(args[i])
        /\ cmd # Null =>
              \A j \in 1..Len(children(cmd)) :
                  isRequired(children(cmd)[j]) => Named(children(cmd)[j])

RECURSIVE ValidWalk(_, _, _, _)
\* Reads a token list as a valid command line: every word names registered
\* nodes, only the last flag of a combo has a value, a node with a value is
\* followed by a value, there is at most one command, and every required
\* node is named.  Gives the nodes named, in order, and the command named.
ValidWalk(args, ctx, cmd, seen) ==
    IF ctx = <<>>
    THEN [ok |-> RequiredNamed(args, cmd, seen), seen |-> seen, cmd |-> cmd]
    ELSE LET sp     == SplitWord(ctx)
             owners == Owners(args, cmd, sp.word)
             n      == Len(owners)
             known  == n >= 1 /\ \A k \in 1..n : owners[k] # Null
             lastN  == owners[n]
             isCmd  == FormOf(sp.word) # "flags" /\ isCommand(lastN)
             shape  == /\ \A k \in 1..(n - 1) : ~isWithValue(owners[k])
                       /\ FormOf(sp.word) = "flags" =>
                             \A k \in 1..n : isNoCommand(owners[k])
                       /\ isCmd => cmd = Null
                       /\ isWithValue(lastN) =>
                             sp.ctx # <<>> /\ ~LooksLikeName(Head(sp.ctx))
         IN  IF ~known THEN [ok |-> FALSE, seen |-> seen, cmd |-> cmd]
             ELSE IF ~shape THEN [ok |-> FALSE, seen |-> seen, cmd |-> cmd]
             ELSE ValidWalk(args,
                            IF isWithValue(lastN) THEN Tail(sp.ctx) ELSE sp.ctx,
                            IF isCmd THEN lastN ELSE cmd,
                            seen \o owners)

\* Two registered nodes share an identifying string.
SharedName(args) ==
    \E i, j \in 1..Len(args) :
        /\ i # j
        /\ \/ flagOf(args[i]) # NoName /\ flagOf(args[i]) = flagOf(args[j])
           \/ nameOf(args[i]) # NoName /\ nameOf(args[i]) = nameOf(args[j])

\* The token list is a valid command line for the registry and the option.
ValidLine ==
    /\ ~SharedName(m_args)
    /\ ValidWalk(m_args, argv, Null, <<>>).ok
    /\ m_opt = "CommandIsRequired" => ValidWalk(m_args, argv, Null, <<>>).cmd # Null

\* C3: with unique names and a token list of recognized names and flags in
\* valid combinations, parse() succeeds and process has been called on each
\* named node exactly as many times as it is named.
C3_ValidLineSucceeds ==
    (pc = "done" /\ ValidLine)
    => /\ err = NoError
       /\ \A n \in AllNodes :
             TimesProcessed(calls, n)
                = Cardinality({k \in 1..Len(ValidWalk(m_args, argv, Null, <<>>).seen) :
                                  ValidWalk(m_args, argv, Null, <<>>).seen[k] = n})

\* ------------------------------------------------------------- C4 - C6
\* The characters of the last iteration's combo: positions 1..NFlags.
NFlags == Len(last.word) - 1
\* The node the engine resolves the k-th flag of the combo to.
FlagNode(k) == findArgument(m_args, last.cmd, <<"-", last.word[k + 1]>>)
\* The context as the combo found it, after the split at '='.
AfterSplit == SplitWord(last.before).ctx

\* The k-th flag of the combo is a flag with a value, not in last place.
ValueFlagInside(k) ==
    k < NFlags /\ FlagNode(k) # Null /\ isWithValue(FlagNode(k))

\* C4, as stated: a combo with a value-bearing flag in any place but the
\* last ends parse() in the flags-combo error, whatever follows, and that
\* flag is not processed.
C4_ValueFlagInsideFails ==
    last.form = "flags" =>
        \A k \in 1..NFlags :
            ValueFlagInside(k) =>
                /\ err = Error("FlagsCombo", <<last.word>>)
                /\ \A c \in 1..Len(StepCalls) : StepCalls[c].node # FlagNode(k)

\* C4, amended: the same, for a combo in which every character before the
\* value-bearing flag resolves to a registered flag; nothing is taken from
\* the context.
C4_ValueFlagInsideFailsIfResolved ==
    last.form = "flags" =>
        \A k \in 1..NFlags :
            (ValueFlagInside(k) /\ \A j \in 1..(k - 1) : FlagNode(j) # Null) =>
                /\ err = Error("FlagsCombo", <<last.word>>)
                /\ pc = "done"
                /\ \A c \in 1..Len(StepCalls) : StepCalls[c].node # FlagNode(k)
                /\ m_context = AfterSplit

\* A combo refused for a value-bearing flag inside it, with a value token
\* after the combo and a flag of the combo already processed.
C4_Witness ==
    /\ last.form = "flags"
    /\ \E k \in 1..NFlags : ValueFlagInside(k) /\ \A j \in 1..(k - 1) : FlagNode(j) # Null
    /\ err.kind = "FlagsCombo"
    /\ m_context # <<>> /\ ~LooksLikeName(Head(m_context))
    /\ StepCalls # <<>>

\* The combo of the last iteration is well formed and has its value: every
\* character resolves, only the last flag has a value, a value follows.
GoodCombo ==
    /\ last.form = "flags"
    /\ NFlags >= 2
    /\ \A k \in 1..NFlags : FlagNode(k) # Null
    /\ \A k \in 1..(NFlags - 1) : ~isWithValue(FlagNode(k))
    /\ isWithValue(FlagNode(NFlags))
    /\ AfterSplit # <<>> /\ ~LooksLikeName(Head(AfterSplit))

\* C5: for such a combo, process is called on each flag once, left to
\* right, the last flag takes the one token after the combo as its value,
\* and the loop goes on at the token after that value.
C5_ComboTakesOneValue ==
    GoodCombo =>
        /\ err = NoError
        /\ pc = "loop"
        /\ StepCalls = [k \in 1..NFlags |->
                          [node  |-> FlagNode(k),
                           value |-> IF k = NFlags THEN Head(AfterSplit) ELSE NoValue]]
        /\ m_context = Tail(AfterSplit)

\* The combo -af followed by the token v has been dispatched.
C5_Witness ==
    /\ GoodCombo
    /\ last.before = <<tAF, tV>>
    /\ calls = <<[node |-> nA, value |-> NoValue], [node |-> nF, value |-> tV]>>

\* The first flag of the combo that does not resolve, 0 when all do.
FirstUnresolved ==
    IF \E k \in 1..NFlags : FlagNode(k) = Null
    THEN CHOOSE k \in 1..NFlags :
            FlagNode(k) = Null /\ \A j \in 1..(k - 1) : FlagNode(j) # Null
    ELSE 0

\* C6: a combo with a character that does not resolve (the flags before it
\* being plain flags) ends parse() in the unknown-argument error and no flag
\* of the combo has been processed.
C6_NoPartialApplication ==
    (/\ last.form = "flags"
     /\ FirstUnresolved # 0
     /\ \A j \in 1..(FirstUnresolved - 1) : ~isWithValue(FlagNode(j)))
    => /\ err = Error("Unknown", <<<<"-", last.word[FirstUnresolved + 1]>>>>)
       /\ StepCalls = <<>>

\* ------------------------------------------------------------------ C7
\* C7: when two registered nodes share an identifying string, parse() fails
\* in pre-parse validation: no token has been read, no node processed and
\* no command made current; and the redefinition error is raised nowhere
\* else.
C7_DuplicateFailsBeforeDispatch ==
    /\ (pc # "setup" /\ SharedName(m_args)) =>
          /\ pc = "done"
          /\ err.kind = "Redefinition"
    /\ err.kind = "Redefinition" =>
          /\ m_context = argv
          /\ calls = <<>>
          /\ m_command = Null
          /\ last = NoStep

\* parse() has refused a registry in which an argument and a command share
\* the name b, on a non-empty token list.
C7_Witness ==
    /\ pc = "done"
    /\ err = Error("Redefinition", <<tB>>)
    /\ m_args = <<nB, nE>>
    /\ argv # <<>>

\* ------------------------------------------------------------------ C8
\* C8: once a command is active, a token naming one of its children
\* resolves to that child, and the loop calls process on that child.
C8_ChildResolvesToChild ==
    (/\ last.form = "argument"
     /\ last.cmd # Null
     /\ findChild(last.cmd, last.word) # Null)
    => /\ Resolved = findChild(last.cmd, last.word)
       /\ StepCalls # <<>>
       /\ StepCalls[1].node = findChild(last.cmd, last.word)

\* ------------------------------------------------------------ C9 - C10
\* What the node at place i of the registry has to complain about after
\* the loop: itself, or a child of it if it is an invoked command.
Unmet(i) ==
    IF isRequired(m_args[i]) /\ ~isDefined(calls, m_args[i])
    THEN {m_args[i]}
    ELSE IF isCommand(m_args[i]) /\ isDefined(calls, m_args[i])
         THEN {c \in AllNodes :
                 /\ \E j \in 1..Len(children(m_args[i])) :
                       children(m_args[i])[j] = c
                 /\ isRequired(c)
                 /\ ~isDefined(calls, c)}
         ELSE {}

\* parse() has left the loop with the context at its end.
LoopExhausted == pc = "done" /\ last.form = "end"

\* C9: when the loop has run to exhaustion and a required top-level node,
\* or a required child of the active command, was never processed, parse()
\* fails with the required-argument error, raised for the first registered
\* node that has one; post-parse errors arise only with the context at its
\* end.
C9_RequiredMissing ==
    /\ (/\ LoopExhausted
        /\ \/ \E i \in 1..Len(m_args) :
                 isRequired(m_args[i]) /\ ~isDefined(calls, m_args[i])
           \/ /\ m_command # Null
              /\ \E j \in 1..Len(children(m_command)) :
                    /\ isRequired(children(m_command)[j])
                    /\ ~isDefined(calls, children(m_command)[j]))
       => /\ err.kind = "RequiredMissing"
          /\ \E i \in 1..Len(m_args) :
                /\ \A h \in 1..(i - 1) : Unmet(h) = {}
                /\ \E c \in Unmet(i) : err.names = <<name(c)>>
    /\ err.kind \in {"RequiredMissing", "MissingCommand"} =>
          LoopExhausted /\ m_context = <<>>

\* The command b was given alone and its required child --c is missing.
C9_Witness ==
    /\ LoopExhausted
    /\ argv = <<tB>>
    /\ m_command = nB
    /\ err = Error("RequiredMissing", <<tC>>)

\* C10: with CommandIsRequired, parse() never succeeds without an active
\* command, and ends in the missing-command error when nothing else fails;
\* without the option, the lack of a command is never a failure.
C10_CommandIsRequired ==
    /\ (pc = "done" /\ m_opt = "CommandIsRequired" /\ m_command = Null) =>
          err # NoError
    /\ (/\ LoopExhausted
        /\ \A i \in 1..Len(m_args) : Unmet(i) = {}) =>
          err = IF m_opt = "CommandIsRequired" /\ m_command = Null
                THEN Error("MissingCommand", <<>>)
                ELSE NoError
    /\ m_opt = "Empty" => err.kind # "MissingCommand"

\* A command line of flags alone has been parsed to its end under
\* CommandIsRequired.
C10_Witness ==
    /\ LoopExhausted
    /\ m_opt = "CommandIsRequired"
    /\ calls # <<>>
    /\ m_command = Null
    /\ err.kind = "MissingCommand"

\* ------------------------------------------------------------------ C11
\* The possible names the misspelling search finds for the last word.
Suggestions == isMisspelledName(m_args, last.cmd, last.word)

\* The last iteration dispatched an argument-form or command-form word
\* that findArgument did not resolve.
UnknownWord ==
    /\ last.form \in {"argument", "command"}
    /\ Resolved = Null

\* C11: for an argument-form or command-form word that findArgument does
\* not resolve, parse() ends in the unknown-argument error at that word
\* whether or not the misspelling search finds possible names; the error
\* carries the word followed by the names found, and the iteration leaves
\* the context as the split left it, makes no process call and keeps the
\* registry and the current command.
C11_MisspellingOnlyChangesText ==
    UnknownWord =>
        /\ pc = "done"
        /\ err = Error("Unknown", <<last.word>> \o Suggestions)
        /\ m_context = SplitWord(last.before).ctx
        /\ StepCalls = <<>>
        /\ m_command = last.cmd
        /\ \A n \in AllNodes : isDefined(calls, n) <=> isDefined(SubSeq(calls, 1, last.ncalls), n)

\* An unresolved word for which the search finds a possible name, after an
\* earlier iteration has already processed a node.
C11_Witness ==
    /\ UnknownWord
    /\ Suggestions # <<>>
    /\ calls # <<>>
    /\ err.kind = "Unknown"

\* ------------------------------------------------------------------ C12
\* No node is in the registry twice.
NoDuplicates(args) ==
    \A i, j \in 1..Len(args) : i # j => args[i] # args[j]

\* What a call of addArg must have done, whichever overload it was.
RegistrationStep ==
    /\ pc' = "setup"
    /\ last'.cmd = Null =>
          /\ err'.kind = "NullArgument"
          /\ m_args' = m_args
    /\ (last'.cmd # Null /\ InRegistry(m_args, last'.cmd)) =>
          /\ err'.kind = "AlreadyRegistered"
          /\ m_args' = m_args
    /\ (last'.cmd # Null /\ ~InRegistry(m_args, last'.cmd)) =>
          /\ err' = NoError
          /\ m_args' = Append(m_args, last'.cmd)
    /\ NoDuplicates(m_args')

\* C12: every call of addArg on a null argument fails with the
\* null-argument error and every call on a node already in the registry
\* fails with the already-registered error, both leaving the registry as
\* it was; every other call appends the node at the end of the registry,
\* so the registry never holds a node twice and keeps registration order.
C12_Registration == [][RegistrationStep]_vars

\* ------------------------------------------------------------------ C13
RECURSIVE Weight(_)
\* The size of what is left to read: every token counts for its length
\* and one more.
Weight(ctx) ==
    IF ctx = <<>> THEN 0 ELSE Len(Head(ctx)) + 1 + Weight(Tail(ctx))

\* An iteration of the loop leaves strictly less to read: it takes one
\* token away and puts back at most the part after its first '='.
IterationShrinks ==
    (pc = "loop" /\ m_context # <<>>) =>
        /\ Weight(m_context') < Weight(m_context)
        /\ \/ Len(m_context') < Len(m_context)
           \/ /\ Len(m_context') = Len(m_context)
              /\ Len(Head(m_context')) < Len(Head(m_context))
              /\ Tail(m_context') = Tail(m_context)

\* C13: parse() terminates: every iteration of the loop removes one token
\* and pushes back at most one strictly shorter token, so what is left to
\* read shrinks with every iteration, and parse(), once in its loop, ends
\* with the context exhausted or with an exception.
C13_ParseTerminates ==
    /\ [][IterationShrinks]_vars
    /\ (pc = "loop") ~> (pc = "done")

\* parse() has returned normally from a token list with a name=value
\* token, whose value was pushed back and consumed.
C13_Witness ==
    /\ pc = "done"
    /\ err = NoError
    /\ calls # <<>>
    /\ \E i \in 1..Len(argv) : HasValue(argv[i])

\* ------------------------------------------------------------------ C14
\* C14: in every reachable state of parse(), an iteration of the loop has
\* read its token from a context that was not at its end: the loop never
\* calls next() past the end of the token list, whatever was pushed back
\* or consumed before.
C14_NeverReadsPastEnd ==
    /\ InStep => last.before # <<>>
    /\ err.kind # "Exhausted"

\* The loop is back at its condition with nothing left to read, after an
\* iteration that pushed a value back and whose node consumed it.
C14_Witness ==
    /\ pc = "loop"
    /\ InStep
    /\ m_context = <<>>
    /\ HasValue(Head(last.before))
    /\ StepCalls # <<>>
    /\ StepCalls[1].value # NoValue

\* ------------------------------------------------------------------ C15
\* Whether a token has the form name= : its first '=' is its last
\* character.
EmptyValue(tok) == FindEq(tok) # 0 /\ FindEq(tok) = Len(tok)

\* The token list with token i cut down to the part before its '='.
Truncated(tokens, i) ==
    [tokens EXCEPT ![i] = SubSeq(tokens[i], 1, Len(tokens[i]) - 1)]

\* The values the last iteration's process calls consumed, in order.
StepValues ==
    [k \in 1..Len(SelectSeq(StepCalls, LAMBDA c : c.value # NoValue)) |->
        SelectSeq(StepCalls, LAMBDA c : c.value # NoValue)[k].value]

ArgumentsThenCommands ==
    SelectSeq(m_args, LAMBDA n : ~isCommand(n))
        \o SelectSeq(m_args, LAMBDA n : isCommand(n))

\* A top-level argument and a command of the registry have the same name.
ArgumentNamedLikeCommand ==
    \E i, j \in 1..Len(m_args) :
        /\ ~isCommand(m_args[i])
        /\ isCommand(m_args[j])
        /\ nameOf(m_args[i]) # NoName
        /\ nameOf(m_args[i]) = nameOf(m_args[j])

\* C16: pre-parse validation runs once per parse(), before the first token
\* is read: before parse() no node has been checked; after its first step
\* the nodes checked are, in this order and each once, the non-command
\* nodes in registration order and then the commands in registration
\* order, all of them unless a check failed, and nothing is checked later;
\* a name shared by a top-level argument and a command is detected,
\* whichever of the two was registered first, when the command is checked.
C16_ArgumentsCheckedBeforeCommands ==
    /\ pc = "setup" => checked = <<>>
    /\ pc # "setup" =>
          /\ Len(checked) <= Len(m_args)
          /\ checked = SubSeq(ArgumentsThenCommands, 1, Len(checked))
          /\ err.kind # "Redefinition" => checked = ArgumentsThenCommands
          /\ err.kind = "Redefinition" => (last = NoStep /\ m_context = argv)
          /\ ArgumentNamedLikeCommand =>
                /\ err.kind = "Redefinition"
                /\ isCommand(checked[Len(checked)])

\* The command b was registered before the argument named b; the argument
\* was checked first and the clash was found at the command.
C16_Witness ==
    /\ m_args = <<nB, nE>>
    /\ checked = <<nE, nB>>
    /\ err = Error("Redefinition", <<tB>>)
    /\ argv # <<>>
    /\ m_context = argv

\* ------------------------------------------------------------------ C17
RECURSIVE FullSearch(_, _)
\* The search the claim describes: every node of the list, in order, gives
\* its own names and, if it is a command, its children's names.
FullSearch(ns, cand) ==
    IF ns = <<>> THEN <<>>
    ELSE OwnSuggestions(Head(ns), cand)
            \o ChildSuggestions(children(Head(ns)), cand)
            \o FullSearch(Tail(ns), cand)

\* C17: for an unresolved word the misspelling search asks every
\* registered top-level node, and every command, current or not, for its
\* own name and its children's names; the unknown-argument error carries
\* the names found, in registration order of the nodes that matched.
C17_SearchAsksEveryCommandsChildren ==
    UnknownWord => err = Error("Unknown", <<last.word>> \o FullSearch(m_args, last.word))

\* ------------------------------------------------------------------ C18
\* C18: in every reachable state of parse(), a Command node on which the
\* loop has called process is the current command, and an iteration on an
\* argument-form word or on a flags combo has called process on no
\* Command node.
C18_ProcessedCommandIsCurrent ==
    /\ \A i \in 1..Len(calls) :
          isCommand(calls[i].node) => m_command = calls[i].node
    /\ last.form \in {"argument", "flags"} =>
          \A i \in 1..Len(StepCalls) : ~isCommand(StepCalls[i].node)

\* ------------------------------------------------------------------ C19
\* What a step may do to the current command: it is written only by an
\* iteration on a command-form word, only while there is none, and then it
\* becomes the command the word resolves to; and such an iteration does
\* write it, whether or not the command's process then fails.
CommandWrittenOnce ==
    /\ m_command' # m_command =>
          /\ m_command = Null
          /\ pc = "loop"
          /\ last'.form = "command"
          /\ isCommand(m_command')
          /\ m_command' = findArgument(m_args, Null, last'.word)
    /\ (/\ pc = "loop"
        /\ last'.form = "command"
        /\ m_command = Null
        /\ findArgument(m_args, Null, last'.word) # Null
        /\ isCommand(findArgument(m_args, Null, last'.word))) =>
          m_command' = findArgument(m_args, Null, last'.word)

\* C19: the current command starts as none and changes at most once, from
\* none to the command the first command word dispatched resolves to; it
\* is set before that command's process is called, so it is set also when
\* that process fails, it is never reset or replaced afterwards, and only
\* the command branch of the loop writes it.
C19_CommandSetOnce ==
    /\ m_command = Null
    /\ [][CommandWrittenOnce]_vars

\* A command was made current and its process then failed for want of a
\* value: the command is still current.
C19_Witness ==
    /\ pc = "done"
    /\ m_command = nT
    /\ err = Error("MissingValue", <<tT>>)
    /\ ~isDefined(calls, nT)

====
